---------------------------- MODULE Spec2Model ----------------------------
(***************************************************************************)
(* Model of util/reggen/gen_selfdoc.py: the renderer that writes the       *)
(* markdown documentation of the register-description schema.  The text   *)
(* written to the output file is modelled as the sequence of strings      *)
(* passed to outfile.write, one element per genout call.                   *)
(***************************************************************************)
EXTENDS Naturals, Sequences, FiniteSets, TLC

(***************************************************************************)
(* Bounds of the model.                                                    *)
(***************************************************************************)
\* largest number of keys in the key table that is varied
MaxKeys == 2
\* largest number of entries of validate.val_types
MaxTypes == 2
\* number of complete document() calls made on one registry
MaxRuns == 2

(***************************************************************************)
(* Static text blocks (module-level string constants).  A TLA+ string     *)
(* cannot hold the backquote character: the blocks have ' in its place.    *)
(***************************************************************************)
doc_intro ==
  "\n\n(start of output generated by 'regtool.py --doc')\n\nThe tables describe each key and the type of the value. The following\ntypes are used:\n\nType | Description\n---- | -----------\n"

swaccess_intro ==
  "\n\nRegister fields are tagged using the swaccess key to describe the\npermitted access and side-effects. This key must have one of these\nvalues:\n\n"

hwaccess_intro ==
  "\n\nRegister fields are tagged using the hwaccess key to describe the\npermitted access from hardware logic and side-effects. This key must\nhave one of these values:\n\n"

top_example ==
  "\nThe basic structure of a register definition file is thus:\n\n'''hjson\n{\n  name: \"GP\",\n  regwidth: \"32\",\n  registers: [\n    // register definitions...\n  ]\n}\n\n'''\n\n"

register_example ==
  "\n\nThe basic register definition group will follow this pattern:\n\n'''hjson\n    { name: \"REGA\",\n      desc: \"Description of register\",\n      swaccess: \"rw\",\n      resval: \"42\",\n      fields: [\n        // bit field definitions...\n      ]\n    }\n'''\n\nThe name and brief description are required. If the swaccess key is\nprovided it describes the access pattern that will be used by all\nbitfields in the register that do not override with their own swaccess\nkey. This is a useful shortcut because in most cases a register will\nhave the same access restrictions for all fields. The reset value of\nthe register may also be provided here or in the individual fields. If\nit is provided in both places then they must match, if it is provided\nin neither place then the reset value defaults to zero for all except\nwrite-only fields when it defaults to x.\n\n"

field_example ==
  "\n\nField names should be relatively short because they will be used\nfrequently (and need to fit in the register layout picture!) The field\ndescription is expected to be longer and will most likely make use of\nthe Hjson ability to include multi-line strings. An example with three\nfields:\n\n'''hjson\n    fields: [\n      { bits: \"15:0\",\n        name: \"RXS\",\n        desc: '''\n        Last 16 oversampled values of RX. These are captured at 16x the baud\n        rate clock. This is a shift register with the most recent bit in\n        bit 0 and the oldest in bit 15. Only valid when ENRXS is set.\n        '''\n      }\n      { bits: \"16\",\n        name: \"ENRXS\",\n        desc: '''\n          If this bit is set the receive oversampled data is collected\n          in the RXS field.\n        '''\n      }\n      {bits: \"20:19\", name: \"TXILVL\",\n       desc: \"Trigger level for TX interrupts\",\n       resval: \"2\",\n       enum: [\n               { value: \"0\", name: \"txlvl1\", desc: \"1 character\" },\n               { value: \"1\", name: \"txlvl4\", desc: \"4 characters\" },\n               { value: \"2\", name: \"txlvl8\", desc: \"8 characters\" },\n               { value: \"3\", name: \"txlvl16\", desc: \"16 characters\" }\n             ]\n      }\n    ]\n'''\n\nIn all of these the swaccess parameter is inherited from the register\nlevel, and will be added so this key is always available to the\nbackend. The RXS and ENRXS will default to zero reset value (unless\nsomething different is provided for the register) and will have the\nkey added, but TXILVL expicitly sets its reset value as 2.\n\nThe missing bits 17 and 18 will be treated as reserved by the tool, as\nwill any bits between 21 and the maximum in the register.\n\nThe TXILVL is an example using an enumeration to specify all valid\nvalues for the field. In this case all possible values are described,\nif the list is incomplete then the field is marked with the rsvdenum\nkey so the backend can take appropriate action. (If the enum field is\nmore than 7 bits then the checking is not done.)\n\n"

offset_intro ==
  "\n\n"

multi_intro ==
  "\n\nThe multireg expands on the register required fields and will generate\na list of the generated registers (that contain all required and\ngenerated keys for an actual register).\n\n"

window_intro ==
  "\n\nA window defines an open region of the register space that can be used\nfor things that are not registers (for example access to a buffer ram).\n\n"

regwen_intro ==
  "\n\nRegisters can protect themselves from software writes by using the\nregister attribute regwen. When not an emptry string (the default\nvalue), regwen indicates that another register must be true in order\nto allow writes to this register.  This is useful for the prevention\nof software modification.  The register-enable register (call it\nREGWEN) must be one bit in width, and should default to 1 and be rw1c\nfor preferred security control.  This allows all writes to proceed\nuntil at some point software disables future modifications by clearing\nREGWEN. An error is reported if REGWEN does not exist, contains more\nthan one bit, is not 'rw1c' or does not default to 1. One REGWEN can\nprotect multiple registers. An example:\n\n'''hjson\n    { name: \"REGWEN\",\n      desc: \"Register write enable for a bank of registers\",\n      swaccess: \"rw1c\",\n      fields: [ { bits: \"0\", resval: \"1\" } ]\n    }\n    { name: \"REGA\",\n      swaccess: \"rw\",\n      regwen: \"REGWEN\",\n      ...\n    }\n    { name: \"REGB\",\n      swaccess: \"rw\",\n      regwen: \"REGWEN\",\n      ...\n    }\n'''\n"

doc_tail ==
  "\n\n(end of output generated by 'regtool.py --doc')\n\n"

\* the string literals that document() passes to genout inline
top_intro ==
  "\n\nThe top level of the JSON is a group containing the following keys:\n"

register_intro ==
  "\n\nThe list of registers includes register definition groups:\n"

field_intro ==
  "\n\nIn the fields list each field definition is a group containing:\n"

enum_intro ==
  "\n\nDefinitions in an enumeration group contain:\n"

optone_intro ==
  "\n\nThe list of registers may include single entry groups to control the offset, open a window or generate registers:\n"

\* Python's None, as the use argument of doc_tbl_head and doc_tbl_line
None == "None"

\* validate.key_use: use-marker -> label of the Kind column
key_use == [r |-> "required", o |-> "optional", a |-> "added"]

(***************************************************************************)
(* The registry (module validate): ordered mappings, each a sequence of    *)
(* <<key, value>> pairs with distinct keys, in insertion order.            *)
(***************************************************************************)
KeyNames == <<"name", "desc", "bits", "resval">>

KeyDescs ==
  <<"name of the component", "description of the component",
    "bit or bit range (msb:lsb)", "reset value">>

TypeCodes == <<"s", "d", "x", "b">>

TypeInfo ==
  << <<"string", "string, typically short">>,
     <<"int", "integer (binary 0b, octal 0o, decimal, hex 0x)">>,
     <<"xint", "x for undefined otherwise int">>,
     <<"bitrange", "bit number or bit-range as decimal integers msb:lsb">> >>

AccessNames == <<"ro", "rw", "wo", "rc">>

AccessInfo ==
  << <<"Read Only", "RO">>, <<"Read/Write", "RW">>,
     <<"Write Only", "WO">>, <<"Read Only, reading clears", "RC">> >>

AccessTables == {"swaccess_permitted", "hwaccess_permitted"}

KeyedTables ==
  {"top_required", "top_optional", "top_added",
   "reg_required", "reg_optional", "reg_added",
   "field_required", "field_optional", "field_added",
   "enum_required", "enum_optional", "enum_added",
   "list_optone",
   "window_required", "window_optional", "window_added",
   "multireg_required", "multireg_optional", "multireg_added"}

\* a mapping holds the first m entries of its pool, m <= n, in either order
Orders(n) ==
  {[i \in 1..m |-> i] : m \in 0..n} \cup
  {[i \in 1..m |-> m + 1 - i] : m \in 0..n}

TypeTable(ord) ==
  [j \in 1..Len(ord) |-> <<TypeCodes[ord[j]], TypeInfo[ord[j]]>>]

AccessTable(ord) ==
  [j \in 1..Len(ord) |-> <<AccessNames[ord[j]], AccessInfo[ord[j]]>>]

\* key number i has kind-code number i
KeyTable(ord) ==
  [j \in 1..Len(ord) |->
     <<KeyNames[ord[j]], <<TypeCodes[ord[j]], KeyDescs[ord[j]]>> >>]

\* one table t0 has any order of at most MaxKeys keys, the others one key
Registries ==
  {[t \in {"val_types"} \cup AccessTables \cup KeyedTables |->
      IF t = "val_types" THEN TypeTable(to)
      ELSE IF t \in AccessTables
           THEN AccessTable(IF t = t0 THEN ord ELSE <<1>>)
           ELSE KeyTable(IF t = t0 THEN ord ELSE <<1>>)] :
   to \in Orders(MaxTypes), t0 \in AccessTables \cup KeyedTables,
   ord \in Orders(MaxKeys)}

\* Python dict operations on an ordered mapping d
HasKey(d, k) == \E i \in 1..Len(d) : d[i][1] = k

Lookup(d, k) == d[CHOOSE i \in 1..Len(d) : d[i][1] = k][2]

(***************************************************************************)
(* The body of document(), statement by statement.                         *)
(***************************************************************************)
Stmt(op, msg, tbl, use) == [op |-> op, msg |-> msg, tbl |-> tbl, use |-> use]

\* genout(outfile, <text>)
Genout(msg) == Stmt("genout", msg, "", None)

\* slip: every call of doc_tbl_head passes None
TblHead_always_plain(use) == Stmt("head", "", "", None)

\* doc_tbl_head(outfile, use)
TblHead(use) == Stmt("head", "", "", use)

\* for x in validate.val_types: genout(outfile, <name> + " | " + <desc> + "\n")
ForTypes == Stmt("for_types", "", "val_types", None)

\* for x in validate.<tbl>: doc_tbl_line(outfile, x, None, validate.<tbl>[x][0])
ForAccess(tbl) == Stmt("for_access", "", tbl, None)

\* slip: the rows of reg_added are written with the marker of reg_optional
For_reg_added_as_optional(tbl, use) ==
  Stmt("for", "", tbl, IF tbl = "reg_added" THEN "o" ELSE use)

\* for x in validate.<tbl>: doc_tbl_line(outfile, x, use, validate.<tbl>[x])
For(tbl, use) == Stmt("for", "", tbl, use)

document_body ==
  << Genout(doc_intro), ForTypes,
     Genout(swaccess_intro), TblHead(None), ForAccess("swaccess_permitted"),
     Genout(hwaccess_intro), TblHead(None), ForAccess("hwaccess_permitted"),
     Genout(top_intro), TblHead("1"),
     For("top_required", "r"), For("top_optional", "o"), For("top_added", "a"),
     Genout(top_example),
     Genout(register_intro), TblHead("1"),
     For("reg_required", "r"), For("reg_optional", "o"), For("reg_added", "a"),
     Genout(register_example),
     Genout(field_intro), TblHead("1"),
     For("field_required", "r"), For("field_optional", "o"),
     For("field_added", "a"),
     Genout(field_example),
     Genout(enum_intro), TblHead("1"),
     For("enum_required", "r"), For("enum_optional", "o"), For("enum_added", "a"),
     Genout(optone_intro), TblHead("1"),
     For("list_optone", "o"),
     Genout(offset_intro),
     Genout(regwen_intro),
     Genout(window_intro), TblHead("1"),
     For("window_required", "r"), For("window_optional", "o"),
     For("window_added", "a"),
     Genout(multi_intro), TblHead("1"),
     For("multireg_required", "r"), For("multireg_optional", "o"),
     For("multireg_added", "a"),
     Genout(doc_tail) >>

\* document() with statements a and b exchanged
Exchanged(a, b) ==
  [i \in 1..Len(document_body) |->
     IF document_body[i] = a THEN b
     ELSE IF document_body[i] = b THEN a
     ELSE document_body[i]]

\* slip: the regwen block is written before the offset block
document_regwen_first == Exchanged(Genout(offset_intro), Genout(regwen_intro))

\* slip: the closing block is written first and the opening block last
document_tail_first == Exchanged(Genout(doc_intro), Genout(doc_tail))

document == document_body

(***************************************************************************)
(* State.                                                                  *)
(***************************************************************************)
VARIABLES
  reg,         \* the registry: table name -> ordered mapping
  call,        \* the function the caller invoked: "none", "document", ...
  args,        \* the arguments of a direct call of doc_tbl_head / doc_tbl_line
  pc,          \* index of the statement of the running function
  sub,         \* position inside the statement: rows done, header lines done
  status,      \* "idle", "running", "returned", "KeyError", "IOError"
  out,         \* the sink: the texts written to outfile so far, in order
  nwrites,     \* the number of outfile.write calls the sink has received
  sinkfailed,  \* whether a write of the sink has raised
  prev,        \* what the last complete document() call wrote (<<>>: none yet)
  runs         \* number of document() calls that have returned

vars ==
  <<reg, call, args, pc, sub, status, out, nwrites, sinkfailed, prev, runs>>

NoArgs == [key |-> "", use |-> None, desc |-> ""]

\* the statements of the function that is running
Code ==
  CASE call = "document" -> document
    [] call = "doc_tbl_head" -> <<TblHead(args.use)>>
    [] call = "doc_tbl_line" -> <<Stmt("line", "", "", args.use)>>
    [] OTHER -> <<>>

AtStmt(op) == status = "running" /\ pc <= Len(Code) /\ Code[pc].op = op

\* outfile.write(msg) on a sink that accepts the write
genout(outfile, msg) == Append(outfile, msg)

\* slip: the test on use is inverted
doc_tbl_head_inverted(use) ==
  IF use = None
  THEN <<"\nKey | Kind | Type | Description of Value\n",
         "--- | ---- | ---- | --------------------\n">>
  ELSE <<"\nKey | Description\n",
         "--- | -----------\n">>

\* the two header lines doc_tbl_head writes
doc_tbl_head(use) ==
  IF use # None
  THEN <<"\nKey | Kind | Type | Description of Value\n",
         "--- | ---- | ---- | --------------------\n">>
  ELSE <<"\nKey | Description\n",
         "--- | -----------\n">>

\* slip: the Type column takes element 1 of the val_types entry
doc_tbl_line_type_desc(key, use, desc) ==
  IF use # None
  THEN IF use \notin DOMAIN key_use \/ ~HasKey(reg["val_types"], desc[1])
       THEN [exc |-> "KeyError", msg |-> ""]
       ELSE [exc |-> "none",
             msg |-> key \o " | " \o key_use[use] \o " | " \o
                     Lookup(reg["val_types"], desc[1])[2] \o " | " \o
                     desc[2] \o "\n"]
  ELSE [exc |-> "none", msg |-> key \o " | " \o desc \o "\n"]

\* defensive variant: dict.get with a default instead of indexing
doc_tbl_line_default(key, use, desc) ==
  IF use # None
  THEN [exc |-> "none",
        msg |-> key \o " | " \o
                (IF use \in DOMAIN key_use THEN key_use[use] ELSE "") \o
                " | " \o
                (IF HasKey(reg["val_types"], desc[1])
                 THEN Lookup(reg["val_types"], desc[1])[1] ELSE "") \o
                " | " \o desc[2] \o "\n"]
  ELSE [exc |-> "none", msg |-> key \o " | " \o desc \o "\n"]

\* the argument of genout in doc_tbl_line, or the exception its evaluation raises
doc_tbl_line(key, use, desc) ==
  IF use # None
  THEN IF use \notin DOMAIN key_use \/ ~HasKey(reg["val_types"], desc[1])
       THEN [exc |-> "KeyError", msg |-> ""]
       ELSE [exc |-> "none",
             msg |-> key \o " | " \o key_use[use] \o " | " \o
                     Lookup(reg["val_types"], desc[1])[1] \o " | " \o
                     desc[2] \o "\n"]
  ELSE [exc |-> "none", msg |-> key \o " | " \o desc \o "\n"]

\* slip: the row starts with the type code x, not with its display name
type_line_code(x) ==
  x \o " | " \o Lookup(reg["val_types"], x)[2] \o "\n"

\* the text of the row of val_types entry x
type_line(x) ==
  Lookup(reg["val_types"], x)[1] \o " | " \o
  Lookup(reg["val_types"], x)[2] \o "\n"

\* the arguments of the doc_tbl_line call that is about to be made
LineArgs ==
  LET s == Code[pc]
      x == reg[s.tbl][sub + 1][1]
  IN  CASE s.op = "line" -> args
        [] s.op = "for_access" ->
             [key |-> x, use |-> None, desc |-> Lookup(reg[s.tbl], x)[1]]
        [] s.op = "for" ->
             [key |-> x, use |-> s.use, desc |-> Lookup(reg[s.tbl], x)]

\* variant with a handler that goes on: the statement is run again
Unwind_retry(exc) == [status |-> "running", pc |-> pc, sub |-> sub]

\* no function has a try/except: an exception ends the call where it is raised
Unwind(exc) == [status |-> exc, pc |-> pc, sub |-> sub]

Raise(exc) ==
  /\ status' = Unwind(exc).status
  /\ pc' = Unwind(exc).pc
  /\ sub' = Unwind(exc).sub

\* genout(outfile, msg), then control goes to (npc, nsub); the sink may raise
Emit(msg, npc, nsub) ==
  /\ nwrites' = nwrites + 1
  /\ \/ /\ out' = genout(out, msg)
        /\ pc' = npc
        /\ sub' = nsub
        /\ UNCHANGED <<status, sinkfailed>>
     \/ /\ sinkfailed' = TRUE
        /\ out' = out
        /\ Raise("IOError")

Init ==
  /\ reg \in Registries
  /\ call = "none"
  /\ args = NoArgs
  /\ pc = 1
  /\ sub = 0
  /\ status = "idle"
  /\ out = <<>>
  /\ nwrites = 0
  /\ sinkfailed = FALSE
  /\ prev = <<>>
  /\ runs = 0

\* the caller invokes f on a newly opened, empty sink
Enter(f, a) ==
  /\ status # "running"
  /\ runs < MaxRuns
  /\ call' = f
  /\ args' = a
  /\ pc' = 1
  /\ sub' = 0
  /\ status' = "running"
  /\ out' = <<>>
  /\ nwrites' = 0
  /\ sinkfailed' = FALSE
  /\ prev' = IF call = "document" /\ status = "returned" THEN out ELSE prev
  /\ UNCHANGED <<reg, runs>>

CallDocument == Enter("document", NoArgs)

CallDocTblHead == \E use \in {None, "1"} : Enter("doc_tbl_head", [NoArgs EXCEPT !.use = use])

CallDocTblLinePlain ==
  Enter("doc_tbl_line",
        [key |-> AccessNames[1], use |-> None, desc |-> AccessInfo[1][1]])

\* any use-marker, "u" is none of key_use; kind-code MaxTypes + 1 is never
\* in val_types
CallDocTblLineKeyed ==
  \E j \in 1..(MaxTypes + 1), use \in {"r", "o", "a", "u"} :
    Enter("doc_tbl_line",
          [key |-> KeyNames[1], use |-> use,
           desc |-> <<TypeCodes[j], KeyDescs[1]>>])

\* a genout statement of document()
GenoutStep ==
  /\ AtStmt("genout")
  /\ Emit(Code[pc].msg, pc + 1, 0)
  /\ UNCHANGED <<reg, call, args, prev, runs>>

\* one iteration of the loop over validate.val_types
TypeRow ==
  /\ AtStmt("for_types")
  /\ sub < Len(reg["val_types"])
  /\ Emit(type_line(reg["val_types"][sub + 1][1]), pc, sub + 1)
  /\ UNCHANGED <<reg, call, args, prev, runs>>

\* one of the two genout calls of doc_tbl_head
HeadStep ==
  /\ AtStmt("head")
  /\ Emit(doc_tbl_head(Code[pc].use)[sub + 1],
          IF sub = 0 THEN pc ELSE pc + 1, IF sub = 0 THEN 1 ELSE 0)
  /\ UNCHANGED <<reg, call, args, prev, runs>>

\* one call of doc_tbl_line: a loop iteration of document(), or a direct call
LineStep ==
  /\ \/ AtStmt("line")
     \/ AtStmt("for_access") /\ sub < Len(reg[Code[pc].tbl])
     \/ AtStmt("for") /\ sub < Len(reg[Code[pc].tbl])
  /\ LET a == LineArgs
         r == doc_tbl_line(a.key, a.use, a.desc)
     IN  IF r.exc # "none"
         THEN Raise(r.exc) /\ UNCHANGED <<out, nwrites, sinkfailed>>
         ELSE IF Code[pc].op = "line"
              THEN Emit(r.msg, pc + 1, 0)
              ELSE Emit(r.msg, pc, sub + 1)
  /\ UNCHANGED <<reg, call, args, prev, runs>>

\* variant whose loops over the access tables consume the mapping (popitem)
LoopEnd_consume ==
  /\ \/ AtStmt("for_types")
     \/ AtStmt("for_access")
     \/ AtStmt("for")
  /\ sub = Len(reg[Code[pc].tbl])
  /\ pc' = pc + 1
  /\ sub' = 0
  /\ reg' = [reg EXCEPT ![Code[pc].tbl] =
                         IF Code[pc].op = "for_access" THEN <<>> ELSE @]
  /\ UNCHANGED <<call, args, status, out, nwrites, sinkfailed, prev, runs>>

\* a for loop has gone through its mapping
LoopEnd ==
  /\ \/ AtStmt("for_types")
     \/ AtStmt("for_access")
     \/ AtStmt("for")
  /\ sub = Len(reg[Code[pc].tbl])
  /\ pc' = pc + 1
  /\ sub' = 0
  /\ UNCHANGED <<reg, call, args, status, out, nwrites, sinkfailed, prev, runs>>

\* the function returns after its last statement
Return ==
  /\ status = "running"
  /\ pc = Len(Code) + 1
  /\ status' = "returned"
  /\ runs' = IF call = "document" THEN runs + 1 ELSE runs
  /\ UNCHANGED <<reg, call, args, pc, sub, out, nwrites, sinkfailed, prev>>

Next ==
  \/ CallDocument
  \/ CallDocTblHead
  \/ CallDocTblLinePlain
  \/ CallDocTblLineKeyed
  \/ GenoutStep
  \/ TypeRow
  \/ HeadStep
  \/ LineStep
  \/ LoopEnd
  \/ Return

Spec == Init /\ [][Next]_vars


(***************************************************************************)
(* Vocabulary of the properties.  The texts below are written out from     *)
(* the documented output format, not taken from the operators above.       *)
(***************************************************************************)
KeyedHeader == "\nKey | Kind | Type | Description of Value\n"

KeyedSeparator == "--- | ---- | ---- | --------------------\n"

PlainHeader == "\nKey | Description\n"

PlainSeparator == "--- | -----------\n"

StaticBlocks ==
  {doc_intro, swaccess_intro, hwaccess_intro, top_intro, top_example,
   register_intro, register_example, field_intro, field_example, enum_intro,
   optone_intro, offset_intro, regwen_intro, window_intro, multi_intro,
   doc_tail}

HeaderLines == {KeyedHeader, KeyedSeparator, PlainHeader, PlainSeparator}

IsStatic(m) == m \in StaticBlocks \cup HeaderLines

InDocument == call = "document"

Completed == call = "document" /\ status = "returned"

IsPrefix(a, b) == Len(a) <= Len(b) /\ SubSeq(b, 1, Len(a)) = a

\* first position of text m in the sink, 0 when it is not there
IndexOf(m) ==
  IF \E i \in 1..Len(out) : out[i] = m
  THEN CHOOSE i \in 1..Len(out) : out[i] = m /\ \A j \in 1..(i - 1) : out[j] # m
  ELSE 0

Count(m) == Cardinality({i \in 1..Len(out) : out[i] = m})

\* what the sink holds after the block `from` (and `skip` more texts) up to
\* the block `to`; <<>> when one of the two blocks is missing
Between(from, skip, to) ==
  IF IndexOf(from) = 0 \/ IndexOf(to) = 0 THEN <<>>
  ELSE SubSeq(out, IndexOf(from) + skip + 1, IndexOf(to) - 1)

\* the sink with every table row replaced by a mark
RowMark == "<row>"

Shape(seq) ==
  [i \in 1..Len(seq) |-> IF IsStatic(seq[i]) THEN seq[i] ELSE RowMark]

RowMarks(tbl) == [i \in 1..Len(reg[tbl]) |-> RowMark]

KeyedMarks(sec) ==
  RowMarks(sec \o "_required") \o RowMarks(sec \o "_optional") \o
  RowMarks(sec \o "_added")

ExpectedShape ==
  <<doc_intro>> \o RowMarks("val_types") \o
  <<swaccess_intro, PlainHeader, PlainSeparator>> \o
  RowMarks("swaccess_permitted") \o
  <<hwaccess_intro, PlainHeader, PlainSeparator>> \o
  RowMarks("hwaccess_permitted") \o
  <<top_intro, KeyedHeader, KeyedSeparator>> \o KeyedMarks("top") \o
  <<top_example>> \o
  <<register_intro, KeyedHeader, KeyedSeparator>> \o KeyedMarks("reg") \o
  <<register_example>> \o
  <<field_intro, KeyedHeader, KeyedSeparator>> \o KeyedMarks("field") \o
  <<field_example>> \o
  <<enum_intro, KeyedHeader, KeyedSeparator>> \o KeyedMarks("enum") \o
  <<optone_intro, KeyedHeader, KeyedSeparator>> \o RowMarks("list_optone") \o
  <<offset_intro>> \o
  <<regwen_intro>> \o
  <<window_intro, KeyedHeader, KeyedSeparator>> \o KeyedMarks("window") \o
  <<multi_intro, KeyedHeader, KeyedSeparator>> \o KeyedMarks("multireg") \o
  <<doc_tail>>

\* the label of the Kind column for a use-marker
KindLabel(use) ==
  CASE use = "r" -> "required"
    [] use = "o" -> "optional"
    [] use = "a" -> "added"

\* the row 'key | label | type-name | description' of a key table entry
KeyedRow(key, label, value) ==
  key \o " | " \o label \o " | " \o Lookup(reg["val_types"], value[1])[1] \o
  " | " \o value[2] \o "\n"

KeyedRows(tbl, label) ==
  [i \in 1..Len(reg[tbl]) |-> KeyedRow(reg[tbl][i][1], label, reg[tbl][i][2])]

\* the row 'name | description' of an access table entry
PlainRow(name, value) == name \o " | " \o value[1] \o "\n"

PlainRows(tbl) ==
  [i \in 1..Len(reg[tbl]) |-> PlainRow(reg[tbl][i][1], reg[tbl][i][2])]

\* the row 'display-name | description' of a Type Table entry
TypeRows ==
  [i \in 1..Len(reg["val_types"]) |->
     reg["val_types"][i][2][1] \o " | " \o reg["val_types"][i][2][2] \o "\n"]

\* the sections with required, optional and added key tables: the block
\* before the table, the block after it, the prefix of the table names
Sections ==
  {<<top_intro, top_example, "top">>,
   <<register_intro, register_example, "reg">>,
   <<field_intro, field_example, "field">>,
   <<enum_intro, optone_intro, "enum">>,
   <<window_intro, multi_intro, "window">>,
   <<multi_intro, doc_tail, "multireg">>}

(***************************************************************************)
(* C1: document() writes its blocks, table headers and tables in the one   *)
(* fixed order of sections 1 to 13, whatever the tables hold: what the     *)
(* sink holds, rows replaced by marks, is at every moment a prefix of the  *)
(* fixed sequence (one mark per entry of the table at that place), and is  *)
(* the whole sequence when document() has returned.                        *)
(***************************************************************************)
C1_FixedOrder ==
  InDocument =>
    /\ IsPrefix(Shape(out), ExpectedShape)
    /\ status = "returned" => Shape(out) = ExpectedShape

C1_Witness ==
  /\ Completed
  /\ reg["enum_added"] = <<>>
  /\ Len(out) = Len(ExpectedShape)

(***************************************************************************)
(* C2: in a complete document, the keyed table of each of the sections     *)
(* top, register, field, enum, window and multireg holds one row per key:  *)
(* the required rows, then the optional rows, then the added rows, each    *)
(* group in the order of its mapping, the Kind column being "required",    *)
(* "optional" or "added" after the table the key came from.                *)
(***************************************************************************)
C2_KeyedTables ==
  Completed =>
    \A sec \in Sections :
      Between(sec[1], 2, sec[2]) =
        KeyedRows(sec[3] \o "_required", "required") \o
        KeyedRows(sec[3] \o "_optional", "optional") \o
        KeyedRows(sec[3] \o "_added", "added")

C2_Witness ==
  /\ Completed
  /\ Len(reg["reg_added"]) = 2
  /\ reg["reg_added"][1][1] = KeyNames[2]

(***************************************************************************)
(* C3: every row doc_tbl_line has written for a use-marker is              *)
(* 'key | label | type-name | description' and a newline, the type-name    *)
(* being element 0 of the val_types entry under the kind-code (element 0   *)
(* of the value) and the description element 1 of the value; the row is    *)
(* there only when the kind-code is in val_types.  The row looked at is    *)
(* the last text in the sink: of a direct call that returned, and of a     *)
(* loop of document() that has done at least one key.                      *)
(***************************************************************************)
C3_KeyedRowFormat ==
  /\ (call = "doc_tbl_line" /\ status = "returned" /\ args.use # None) =>
       /\ HasKey(reg["val_types"], args.desc[1])
       /\ out = <<args.key \o " | " \o KindLabel(args.use) \o " | " \o
                  Lookup(reg["val_types"], args.desc[1])[1] \o " | " \o
                  args.desc[2] \o "\n">>
  /\ (InDocument /\ pc <= Len(document) /\ document[pc].op = "for" /\ sub >= 1) =>
       LET e == reg[document[pc].tbl][sub]
       IN  /\ HasKey(reg["val_types"], e[2][1])
           /\ out # <<>>
           /\ out[Len(out)] =
                e[1] \o " | " \o KindLabel(document[pc].use) \o " | " \o
                Lookup(reg["val_types"], e[2][1])[1] \o " | " \o
                e[2][2] \o "\n"

C3_Witness ==
  /\ call = "doc_tbl_line"
  /\ status = "returned"
  /\ args.use = "a"
  /\ args.desc[1] = TypeCodes[2]
  /\ Len(out) = 1

(***************************************************************************)
(* C4: the block with the start marker is the first text document()        *)
(* writes, before every header and row; the block with the end marker is   *)
(* written once, is the last text of a complete document, and nothing is   *)
(* appended after it.                                                      *)
(***************************************************************************)
C4_Markers ==
  InDocument =>
    /\ out # <<>> => out[1] = doc_intro
    /\ \A i \in 1..Len(out) : out[i] = doc_intro => i = 1
    /\ \A i \in 1..Len(out) : out[i] = doc_tail => i = Len(out)
    /\ status = "returned" => out # <<>> /\ out[Len(out)] = doc_tail

C4_Witness ==
  /\ Completed
  /\ out[1] = doc_intro
  /\ out[Len(out)] = doc_tail
  /\ Len(out) > 2

(***************************************************************************)
(* C5: when doc_tbl_line is about to run with a use-marker and the         *)
(* kind-code is not in val_types, or the use-marker is none of r, o, a,    *)
(* the step ends the call with KeyError and leaves the sink as it was;     *)
(* after a KeyError the call writes nothing more (the only step left is a  *)
(* new call on a new sink).                                                *)
(***************************************************************************)
BadLinePending ==
  /\ status = "running"
  /\ pc <= Len(Code)
  /\ \/ Code[pc].op = "line" /\ args.use # None
     \/ Code[pc].op = "for" /\ sub < Len(reg[Code[pc].tbl])
  /\ \/ LineArgs.use \notin {"r", "o", "a"}
     \/ ~HasKey(reg["val_types"], LineArgs.desc[1])

C5_FailFast ==
  [][/\ BadLinePending => status' = "KeyError" /\ out' = out /\ nwrites' = nwrites
     /\ status = "KeyError" => status' = "running" /\ out' = <<>> /\ nwrites' = 0
    ]_vars

C5_Witness ==
  /\ InDocument
  /\ status = "KeyError"
  /\ Len(out) > 10
  /\ sub >= 1

(***************************************************************************)
(* C6: a complete document() call writes the same texts as the complete    *)
(* document() call before it on the same registry.                         *)
(***************************************************************************)
C6_Deterministic == (Completed /\ prev # <<>>) => out = prev

C6_Witness ==
  /\ Completed
  /\ prev # <<>>
  /\ runs = 2
  /\ Len(out) > 40

(***************************************************************************)
(* C7: once document() is past the loop over val_types, the sink starts    *)
(* with the intro block and one row 'display-name | description' per       *)
(* entry of val_types, in the order of val_types, and the next text, when  *)
(* there is one, is the swaccess intro.                                    *)
(***************************************************************************)
C7_TypeTable ==
  (InDocument /\ pc >= 3) =>
    /\ IsPrefix(<<doc_intro>> \o TypeRows, out)
    /\ Len(out) >= Len(TypeRows) + 2 => out[Len(TypeRows) + 2] = swaccess_intro

C7_Witness ==
  /\ Completed
  /\ Len(reg["val_types"]) = 2
  /\ reg["val_types"][1][1] = TypeCodes[2]

(***************************************************************************)
(* C8: once the block after an access table is written, the sink holds,    *)
(* after the swaccess (hwaccess) intro, the header 'Key | Description',    *)
(* its separator, and one row 'name | description' per access mode, in     *)
(* the order of the table, description being element 0 of the tuple.       *)
(***************************************************************************)
C8_AccessTables ==
  /\ (InDocument /\ IndexOf(hwaccess_intro) # 0) =>
       Between(swaccess_intro, 0, hwaccess_intro) =
         <<PlainHeader, PlainSeparator>> \o PlainRows("swaccess_permitted")
  /\ (InDocument /\ IndexOf(top_intro) # 0) =>
       Between(hwaccess_intro, 0, top_intro) =
         <<PlainHeader, PlainSeparator>> \o PlainRows("hwaccess_permitted")

C8_Witness ==
  /\ InDocument
  /\ IndexOf(top_intro) # 0
  /\ Len(reg["hwaccess_permitted"]) = 2
  /\ reg["hwaccess_permitted"][1][1] = AccessNames[2]

(***************************************************************************)
(* C9: a write that the sink refuses ends the call with that error: the    *)
(* sink has then received exactly one write more than it holds, and no     *)
(* write follows; without a refused write the sink holds every write it    *)
(* received.                                                               *)
(***************************************************************************)
C9_SinkFailure ==
  /\ sinkfailed => status = "IOError" /\ nwrites = Len(out) + 1
  /\ ~sinkfailed => status # "IOError" /\ nwrites = Len(out)

C9_Witness ==
  /\ InDocument
  /\ sinkfailed
  /\ status = "IOError"
  /\ Len(out) > 10

(***************************************************************************)
(* C10: a complete document has 2 plain headers and 7 keyed headers, each  *)
(* with its separator directly after the intro block of its table; every   *)
(* keyed row comes after a keyed separator and every access row after a    *)
(* plain separator with no block in between; the rows of the single-entry  *)
(* list control table all carry the label "optional".                      *)
(***************************************************************************)
PlainIntros == {swaccess_intro, hwaccess_intro}

KeyedIntros ==
  {top_intro, register_intro, field_intro, enum_intro, optone_intro,
   window_intro, multi_intro}

\* the last block or header line written before position i
LastStaticBefore(i) ==
  out[CHOOSE j \in 1..(i - 1) :
        IsStatic(out[j]) /\ \A k \in (j + 1)..(i - 1) : ~IsStatic(out[k])]

AllKeyedRows ==
  UNION {{KeyedRow(reg[t][i][1], l, reg[t][i][2]) :
            i \in 1..Len(reg[t]), l \in {"required", "optional", "added"}} :
         t \in KeyedTables}

AllPlainRows ==
  UNION {{PlainRow(reg[t][i][1], reg[t][i][2]) : i \in 1..Len(reg[t])} :
         t \in AccessTables}

C10_Headers ==
  Completed =>
    /\ Count(PlainHeader) = 2 /\ Count(PlainSeparator) = 2
    /\ Count(KeyedHeader) = 7 /\ Count(KeyedSeparator) = 7
    /\ \A b \in PlainIntros :
         /\ IndexOf(b) # 0
         /\ out[IndexOf(b) + 1] = PlainHeader
         /\ out[IndexOf(b) + 2] = PlainSeparator
    /\ \A b \in KeyedIntros :
         /\ IndexOf(b) # 0
         /\ out[IndexOf(b) + 1] = KeyedHeader
         /\ out[IndexOf(b) + 2] = KeyedSeparator
    /\ \A i \in 2..Len(out) :
         /\ out[i] \in AllKeyedRows => LastStaticBefore(i) = KeyedSeparator
         /\ out[i] \in AllPlainRows => LastStaticBefore(i) = PlainSeparator
         /\ (~IsStatic(out[i]) /\ i > IndexOf(swaccess_intro)) =>
              out[i] \in AllKeyedRows \cup AllPlainRows
    /\ Between(optone_intro, 2, offset_intro) =
         KeyedRows("list_optone", "optional")

C10_Witness ==
  /\ Completed
  /\ Len(reg["list_optone"]) = 2
  /\ Count(KeyedHeader) = 7

=============================================================================
